---- MODULE Spec2Model ----
(***************************************************************************)
(* plot1D_mat(a, b, M, title='') of examples/sinkhorn_1D/plot_1d_mat.py,   *)
(* statement by statement, against the state of the pyplot backend it      *)
(* drives: the current figure, its axes, the current axes, the shared-axis *)
(* groups and the subplot spacing.                                         *)
(*                                                                         *)
(* View limits are kept in fixed point, 200 units for 1.0 of data, so that *)
(* the 5% autoscale margins and the half-pixel image extent are integers.  *)
(***************************************************************************)
EXTENDS Integers, Sequences, FiniteSets, TLC

VARIABLES
    a, b, M, title,     \* the arguments of the call in progress (the caller's objects)
    args0,              \* the arguments as they were when the call was made
    pc,                 \* "idle", the line about to run, "done" or "raised"
    na, nb, gs, xa, xb, \* locals of plot1D_mat
    ax1, ax2,           \* locals of plot1D_mat: axes handles (0: unbound)
    err, ret,           \* the exception reaching the caller, the value returned
    trace,              \* the lines the call in progress has executed
    figOpen,            \* pyplot: a current figure exists
    figAxes,            \* pyplot: the current figure's axes, in creation order
    ax,                 \* pyplot: the axes objects, by handle
    current,            \* pyplot: gca(), 0 when the figure has no axes
    xshared, yshared,   \* pyplot: the shared-axis groups of more than one axes
    subplotpars,        \* pyplot: the figure's margins and spacing
    preAxes,            \* the current figure's axes when the call was made
    nextId, calls,
    overlapRemoval      \* backend build: pl.subplot deletes the axes it overlaps

vars == << a, b, M, title, args0, pc, na, nb, gs, xa, xb, ax1, ax2, err, ret,
           trace, figOpen, figAxes, ax, current, xshared, yshared,
           subplotpars, preAxes, nextId, calls, overlapRemoval >>

callerVars == << a, b, M, title, args0 >>
localVars  == << na, nb, gs, xa, xb, ax1, ax2 >>
figVars    == << figOpen, figAxes, ax, current, xshared, yshared, subplotpars, nextId >>
envVars    == << preAxes, calls, overlapRemoval >>

(* ------------------------------ bounds ------------------------------- *)
MaxN     == 2    \* largest dimension of M and largest length of a and b
MaxCalls == 2    \* calls made on one backend

(* ------------------------------ inputs ------------------------------- *)
Dims    == 1..MaxN
Titles  == {"demo"}
\* a is a prefix of one of these: all zero, or of mixed sign.
AKinds  == {"zero", "mixed"}
AElem(kind, i) == IF kind = "zero" THEN 0 ELSE IF i % 2 = 1 THEN 0 - i ELSE i
AVec(kind, n)  == [i \in 1..n |-> AElem(kind, i)]
BVec(n)        == [i \in 1..n |-> 1]
MMat(r, c)     == [i \in 1..r |-> [j \in 1..c |-> (i + j) % 2]]

(* --------------------------- numpy helpers --------------------------- *)
\* M.shape of a 2-D array
Shape(m) == << Len(m), Len(m[1]) >>

\* np.arange(n + 1) in the place of np.arange(n)
ArangeInclusive(n) == [i \in 1..(n + 1) |-> i - 1]

\* np.arange(n): 0, 1, ..., n-1
Arange(n) == [i \in 1..n |-> i - 1]

(* ------------------------------ gridspec ----------------------------- *)
GridRows == 3
GridCols == 3

\* the slice "k+1:" in the place of "k:"
SliceAfter(k, n) == { i \in 0..(n - 1) : i > k }

\* the index set of the slice "k:" on an axis of length n, and of the index k
SliceFrom(k, n) == { i \in 0..(n - 1) : i >= k }
Index(k, n)     == { i \in 0..(n - 1) : i = k }
Cells(rows, cols) == rows \X cols

\* gs[0, 1:], gs[1:, 0], gs[1:, 1:]
TopSpec    == Cells(Index(0, GridRows), SliceFrom(1, GridCols))
LeftSpec   == Cells(SliceFrom(1, GridRows), Index(0, GridCols))
CenterSpec == Cells(SliceFrom(1, GridRows), SliceFrom(1, GridCols))

(* ------------------------ pyplot: view limits ------------------------- *)
\* 1.0 of data is 200 units of view limit
Fx(n) == 200 * n

Abs(v) == IF v < 0 THEN 0 - v ELSE v
SeqRange(s) == { s[i] : i \in DOMAIN s }
MinOf(S) == CHOOSE v \in S : \A w \in S : v <= w
MaxOf(S) == CHOOSE v \in S : \A w \in S : v >= w

\* Axis.get_inverted(): the view interval runs downwards
Inverted(lim) == lim[2] < lim[1]

\* transforms.nonsingular(vmin, vmax, expander=0.05): widen an empty interval
Nonsingular(lo, hi) ==
    IF hi - lo = 0
    THEN IF lo = 0 THEN << 0 - Fx(1) \div 20, Fx(1) \div 20 >>
                   ELSE << lo - Abs(lo) \div 20, hi + Abs(hi) \div 20 >>
    ELSE << lo, hi >>

\* the default margins of autoscale_view: 5% of the interval on either side
WithMargins(iv) ==
    LET d == (iv[2] - iv[1]) \div 20 IN << iv[1] - d, iv[2] + d >>

\* dataLim after update_datalim with the values vs
GrowDataLim(dl, vs) ==
    LET all == SeqRange(dl) \cup vs
    IN  << MinOf(all), MaxOf(all) >>

(* ---------------------- pyplot: shared-axis groups -------------------- *)
\* cbook.Grouper.get_siblings
Siblings(groups, i) ==
    IF \E s \in groups : i \in s THEN CHOOSE s \in groups : i \in s ELSE {i}

\* cbook.Grouper.join
Join(groups, i, j) ==
    LET si == Siblings(groups, i)
        sj == Siblings(groups, j)
    IN  (groups \ {si, sj}) \cup {si \cup sj}

\* cbook.Grouper.remove, for every axes of the set gone
Leave(groups, gone) ==
    { s \ gone : s \in { t \in groups : Cardinality(t \ gone) > 1 } }

(* --------------------------- pyplot: axes ----------------------------- *)
NoImage == [ shape |-> << 0, 0 >>, data |-> << >>, interpolation |-> "none" ]

\* a new Axes at a subplot position
NewAxes(g, cells) ==
    [ gs |-> g, cells |-> cells, lines |-> << >>, title |-> "",
      xticks |-> "auto", yticks |-> "auto",
      xlim |-> << 0, Fx(1) >>, ylim |-> << 0, Fx(1) >>,
      autox |-> TRUE, autoy |-> TRUE, xdl |-> << >>, ydl |-> << >>,
      image |-> NoImage, aspect |-> "auto", axison |-> TRUE ]

\* set_xlim that leaves the other axes of the shared group alone
SetXLimOwn(axf, groups, i, lim, auto) ==
    [ axf EXCEPT ![i].xlim = lim,
                 ![i].autox = IF auto = "keep" THEN @ ELSE FALSE ]

\* Axes.set_xlim / set_ylim: the limits go to every axes of the shared group;
\* auto = "off" is the default auto=False, "keep" is auto=None
SetXLim(axf, groups, i, lim, auto) ==
    [ j \in DOMAIN axf |->
        IF j \in Siblings(groups, i)
        THEN [ axf[j] EXCEPT !.xlim = lim,
                             !.autox = IF auto = "keep" THEN @ ELSE FALSE ]
        ELSE axf[j] ]

SetYLim(axf, groups, i, lim, auto) ==
    [ j \in DOMAIN axf |->
        IF j \in Siblings(groups, i)
        THEN [ axf[j] EXCEPT !.ylim = lim,
                             !.autoy = IF auto = "keep" THEN @ ELSE FALSE ]
        ELSE axf[j] ]

\* Axes.set_xbound: the interval in the axis's present orientation
Bound(lim, iv) == IF Inverted(lim) THEN << iv[2], iv[1] >> ELSE iv

\* Axes.autoscale_view, one axis: the data of the whole shared group,
\* made nonsingular, with margins, in the present orientation
AutoscaleX(axf, groups, i) ==
    LET vals == UNION { SeqRange(axf[j].xdl) : j \in Siblings(groups, i) }
    IN  IF axf[i].autox /\ vals # {}
        THEN SetXLim(axf, groups, i,
                     Bound(axf[i].xlim,
                           WithMargins(Nonsingular(MinOf(vals), MaxOf(vals)))),
                     "keep")
        ELSE axf

AutoscaleY(axf, groups, i) ==
    LET vals == UNION { SeqRange(axf[j].ydl) : j \in Siblings(groups, i) }
    IN  IF axf[i].autoy /\ vals # {}
        THEN SetYLim(axf, groups, i,
                     Bound(axf[i].ylim,
                           WithMargins(Nonsingular(MinOf(vals), MaxOf(vals)))),
                     "keep")
        ELSE axf

\* Axis.set_inverted(not get_inverted()): the view interval, turned round
Flip(lim) ==
    IF Inverted(lim) THEN << MinOf({lim[1], lim[2]}), MaxOf({lim[1], lim[2]}) >>
                     ELSE << MaxOf({lim[1], lim[2]}), MinOf({lim[1], lim[2]}) >>

\* the extent with origin='lower': row 0 at the bottom
ImageExtentYLower(shape) == << 0 - Fx(1) \div 2, Fx(shape[1]) - Fx(1) \div 2 >>

\* AxesImage.get_extent with origin='upper': half a pixel round the array,
\* row 0 on top
ImageExtentX(shape) == << 0 - Fx(1) \div 2, Fx(shape[2]) - Fx(1) \div 2 >>
ImageExtentY(shape) == << Fx(shape[1]) - Fx(1) \div 2, 0 - Fx(1) \div 2 >>

\* a plot that accepts a y longer than x
PlotArgsLoose(x, y) == Len(x) <= Len(y)

\* Axes._plot_args: x and y must have the same first dimension
PlotArgsOK(x, y) == Len(x) = Len(y)

\* the limits (0, nb - 1) in the place of (0, nb)
XLimArgLastIndex(n) == << Fx(0), Fx(n - 1) >>

\* the argument of pl.xlim on line 46
XLimArg(n) == << Fx(0), Fx(n) >>

(* ------------------------------- Init -------------------------------- *)
NoGrid == [ id |-> 0, rows |-> 0, cols |-> 0 ]
DefaultPars == [ margins |-> "rc", wspace |-> "rc", hspace |-> "rc" ]

Init ==
    /\ a = << >> /\ b = << >> /\ M = << >> /\ title = ""
    /\ args0 = << << >>, << >>, << >>, "" >>
    /\ pc = "idle"
    /\ na = 0 /\ nb = 0 /\ gs = NoGrid /\ xa = << >> /\ xb = << >>
    /\ ax1 = 0 /\ ax2 = 0
    /\ err = "none" /\ ret = "unset" /\ trace = << >>
    /\ figOpen = FALSE /\ figAxes = << >> /\ ax = << >> /\ current = 0
    /\ xshared = {} /\ yshared = {}
    /\ subplotpars = DefaultPars
    /\ preAxes = << >> /\ nextId = 1 /\ calls = 0
    /\ overlapRemoval \in BOOLEAN

(* ---------------------- the statements' building blocks --------------- *)
\* one statement ran: control moves on
Goto(from, to) ==
    /\ pc = from
    /\ pc' = to
    /\ trace' = Append(trace, from)

\* pl.subplot(spec, sharex=sx, sharey=sy) on the current figure (made by
\* gcf() when there is none): the axes already at this SubplotSpec is made
\* current, else a new one is added and made current.  A SubplotSpec equals
\* another only within the same GridSpec object, and line 26 makes a new
\* one per call.  The source pins no matplotlib version: builds before 3.8
\* also delete the axes the new one overlaps (overlapRemoval), later ones
\* keep them.  A new axes takes the limits and the autoscale setting of
\* the axes it shares with.
Subplot(cells, sx, sy) ==
    LET here == { i \in SeqRange(figAxes) :
                    ax[i].gs = gs /\ ax[i].cells = cells }
        gone == IF overlapRemoval
                THEN { i \in SeqRange(figAxes) : ax[i].cells \cap cells # {} }
                ELSE {}
        Kept(i) == i \notin gone
        fresh == NewAxes(gs, cells)
        viaX == IF sx = 0 THEN fresh
                ELSE [ fresh EXCEPT !.xlim = ax[sx].xlim, !.autox = ax[sx].autox ]
        made == IF sy = 0 THEN viaX
                ELSE [ viaX EXCEPT !.ylim = ax[sy].ylim, !.autoy = ax[sy].autoy ]
    IN  /\ figOpen' = TRUE
        /\ IF here # {}
           THEN /\ current' = CHOOSE i \in here : TRUE
                /\ UNCHANGED << figAxes, ax, xshared, yshared, nextId >>
           ELSE /\ current' = nextId
                /\ nextId' = nextId + 1
                /\ figAxes' = Append(SelectSeq(figAxes, Kept), nextId)
                /\ ax' = [ i \in (DOMAIN ax \ gone) \cup {nextId} |->
                             IF i = nextId THEN made ELSE ax[i] ]
                /\ xshared' = Leave(IF sx = 0 THEN xshared
                                    ELSE Join(xshared, nextId, sx), gone)
                /\ yshared' = Leave(IF sy = 0 THEN yshared
                                    ELSE Join(yshared, nextId, sy), gone)
        /\ UNCHANGED subplotpars

\* the axes after Axes.plot(x, y, fmt, label=label) on axes i: the line is
\* added, the data limits grow, both axes are autoscaled
Plotted(axf, i, x, y, fmt, label) ==
    LET line == [ x |-> x, y |-> y, fmt |-> fmt, label |-> label ]
        drawn == [ axf EXCEPT
                     ![i].lines = Append(@, line),
                     ![i].xdl = GrowDataLim(@, { Fx(v) : v \in SeqRange(x) }),
                     ![i].ydl = GrowDataLim(@, { Fx(v) : v \in SeqRange(y) }) ]
    IN  AutoscaleY(AutoscaleX(drawn, xshared, i), yshared, i)

\* pl.plot(x, y, fmt, label=label) at line `from`: ValueError out of the
\* call when the lengths differ, else the line on the current axes
Plot(x, y, fmt, label, from, to) ==
    /\ pc = from
    /\ trace' = Append(trace, from)
    /\ IF PlotArgsOK(x, y)
       THEN /\ ax' = Plotted(ax, current, x, y, fmt, label)
            /\ pc' = to
            /\ UNCHANGED err
       ELSE /\ pc' = "raised"
            /\ err' = "ValueError"
            /\ UNCHANGED ax
    /\ UNCHANGED << figOpen, figAxes, current, xshared, yshared, subplotpars, nextId >>
    /\ UNCHANGED << callerVars, localVars, envVars, ret >>

\* the axes after pl.imshow(m, interpolation=interp) on axes i: the image
\* with aspect 'equal'; its extent enters the data limits and, on an
\* autoscaled axis, becomes the view limits of the shared group
Imshown(axf, i, m, interp) ==
    LET ex == ImageExtentX(Shape(m))
        ey == ImageExtentY(Shape(m))
        shown == [ axf EXCEPT
                     ![i].image = [ shape |-> Shape(m), data |-> m,
                                    interpolation |-> interp ],
                     ![i].aspect = "equal",
                     ![i].xdl = GrowDataLim(@, SeqRange(ex)),
                     ![i].ydl = GrowDataLim(@, SeqRange(ey)) ]
        withX == IF shown[i].autox THEN SetXLim(shown, xshared, i, ex, "keep")
                                   ELSE shown
    IN  IF withX[i].autoy THEN SetYLim(withX, yshared, i, ey, "keep") ELSE withX

(* ------------------------------ the call ----------------------------- *)
\* the caller calls plot1D_mat(a, b, M, title) on the backend as it stands
Call ==
    /\ pc \in {"idle", "done", "raised"}
    /\ calls < MaxCalls
    /\ \E r \in Dims, c \in Dims, la \in Dims, lb \in Dims,
          k \in AKinds, t \in Titles :
          /\ a' = AVec(k, la)
          /\ b' = BVec(lb)
          /\ M' = MMat(r, c)
          /\ title' = t
          /\ args0' = << AVec(k, la), BVec(lb), MMat(r, c), t >>
    /\ pc' = "l24"
    /\ na' = 0 /\ nb' = 0 /\ gs' = NoGrid /\ xa' = << >> /\ xb' = << >>
    /\ ax1' = 0 /\ ax2' = 0
    /\ err' = "none" /\ ret' = "unset" /\ trace' = << >>
    /\ preAxes' = figAxes
    /\ calls' = calls + 1
    /\ UNCHANGED << figVars, overlapRemoval >>

\* na, nb = M.shape
L24 ==
    /\ Goto("l24", "l26")
    /\ na' = Shape(M)[1]
    /\ nb' = Shape(M)[2]
    /\ UNCHANGED << gs, xa, xb, ax1, ax2 >>
    /\ UNCHANGED << callerVars, figVars, envVars, err, ret >>

\* gs = gridspec.GridSpec(3, 3): a new grid object
L26 ==
    /\ Goto("l26", "l28")
    /\ gs' = [ id |-> calls, rows |-> GridRows, cols |-> GridCols ]
    /\ UNCHANGED << na, nb, xa, xb, ax1, ax2 >>
    /\ UNCHANGED << callerVars, figVars, envVars, err, ret >>

\* xa = np.arange(na)
L28 ==
    /\ Goto("l28", "l29")
    /\ xa' = Arange(na)
    /\ UNCHANGED << na, nb, gs, xb, ax1, ax2 >>
    /\ UNCHANGED << callerVars, figVars, envVars, err, ret >>

\* xb = np.arange(nb)
L29 ==
    /\ Goto("l29", "l31")
    /\ xb' = Arange(nb)
    /\ UNCHANGED << na, nb, gs, xa, ax1, ax2 >>
    /\ UNCHANGED << callerVars, figVars, envVars, err, ret >>

\* ax1 = pl.subplot(gs[0, 1:])
L31 ==
    /\ Goto("l31", "l32")
    /\ Subplot(TopSpec, 0, 0)
    /\ ax1' = current'
    /\ UNCHANGED << na, nb, gs, xa, xb, ax2 >>
    /\ UNCHANGED << callerVars, envVars, err, ret >>

\* pl.plot(xb, b, 'r', label='Target distribution')
L32 == Plot(xb, b, "r", "Target distribution", "l32", "l33")

\* pl.yticks(())
L33 ==
    /\ Goto("l33", "l34")
    /\ ax' = [ ax EXCEPT ![current].yticks = "none" ]
    /\ UNCHANGED << figOpen, figAxes, current, xshared, yshared, subplotpars, nextId >>
    /\ UNCHANGED << callerVars, localVars, envVars, err, ret >>

\* pl.suptitle(title) in the place of pl.title(title): the axes gets no title
L34Suptitle ==
    /\ Goto("l34", "l36")
    /\ UNCHANGED << figVars, callerVars, localVars, envVars, err, ret >>

\* pl.title(title)
L34 ==
    /\ Goto("l34", "l36")
    /\ ax' = [ ax EXCEPT ![current].title = title ]
    /\ UNCHANGED << figOpen, figAxes, current, xshared, yshared, subplotpars, nextId >>
    /\ UNCHANGED << callerVars, localVars, envVars, err, ret >>

\* ax2 = pl.subplot(gs[1:, 0])
L36 ==
    /\ Goto("l36", "l37")
    /\ Subplot(LeftSpec, 0, 0)
    /\ ax2' = current'
    /\ UNCHANGED << na, nb, gs, xa, xb, ax1 >>
    /\ UNCHANGED << callerVars, envVars, err, ret >>

\* pl.plot(a, xa, 'b', label='Source distribution')
L37 == Plot(a, xa, "b", "Source distribution", "l37", "l38")

\* pl.gca().invert_xaxis()
L38 ==
    /\ Goto("l38", "l39")
    /\ ax' = SetXLim(ax, xshared, current, Flip(ax[current].xlim), "keep")
    /\ UNCHANGED << figOpen, figAxes, current, xshared, yshared, subplotpars, nextId >>
    /\ UNCHANGED << callerVars, localVars, envVars, err, ret >>

\* pl.gca().invert_yaxis()
L39 ==
    /\ Goto("l39", "l40")
    /\ ax' = SetYLim(ax, yshared, current, Flip(ax[current].ylim), "keep")
    /\ UNCHANGED << figOpen, figAxes, current, xshared, yshared, subplotpars, nextId >>
    /\ UNCHANGED << callerVars, localVars, envVars, err, ret >>

\* pl.xticks(())
L40 ==
    /\ Goto("l40", "l42")
    /\ ax' = [ ax EXCEPT ![current].xticks = "none" ]
    /\ UNCHANGED << figOpen, figAxes, current, xshared, yshared, subplotpars, nextId >>
    /\ UNCHANGED << callerVars, localVars, envVars, err, ret >>

\* the third subplot at gs[1:, 0], the left marginal's position
L42AtLeft ==
    /\ Goto("l42", "l43")
    /\ Subplot(LeftSpec, ax1, ax2)
    /\ UNCHANGED << callerVars, localVars, envVars, err, ret >>

\* the third subplot with sharex and sharey exchanged
L42Swapped ==
    /\ Goto("l42", "l43")
    /\ Subplot(CenterSpec, ax2, ax1)
    /\ UNCHANGED << callerVars, localVars, envVars, err, ret >>

\* pl.subplot(gs[1:, 1:], sharex=ax1, sharey=ax2)
L42 ==
    /\ Goto("l42", "l43")
    /\ Subplot(CenterSpec, ax1, ax2)
    /\ UNCHANGED << callerVars, localVars, envVars, err, ret >>

\* imshow after clearing M in place (M[:] = 0)
L43Clearing ==
    /\ Goto("l43", "l44")
    /\ M' = [ i \in DOMAIN M |-> [ j \in DOMAIN M[i] |-> 0 ] ]
    /\ ax' = Imshown(ax, current, M', "nearest")
    /\ UNCHANGED << figOpen, figAxes, current, xshared, yshared, subplotpars, nextId >>
    /\ UNCHANGED << a, b, title, args0, localVars, envVars, err, ret >>

\* pl.imshow(M, interpolation='nearest')
L43 ==
    /\ Goto("l43", "l44")
    /\ ax' = Imshown(ax, current, M, "nearest")
    /\ UNCHANGED << figOpen, figAxes, current, xshared, yshared, subplotpars, nextId >>
    /\ UNCHANGED << callerVars, localVars, envVars, err, ret >>

\* pl.axis('off')
L44 ==
    /\ Goto("l44", "l46")
    /\ ax' = [ ax EXCEPT ![current].axison = FALSE ]
    /\ UNCHANGED << figOpen, figAxes, current, xshared, yshared, subplotpars, nextId >>
    /\ UNCHANGED << callerVars, localVars, envVars, err, ret >>

\* pl.xlim((0, nb))
L46 ==
    /\ Goto("l46", "l47")
    /\ ax' = SetXLim(ax, xshared, current, XLimArg(nb), "off")
    /\ UNCHANGED << figOpen, figAxes, current, xshared, yshared, subplotpars, nextId >>
    /\ UNCHANGED << callerVars, localVars, envVars, err, ret >>

\* pl.tight_layout(): margins and spacing fitted to the decorations; no
\* view limit changes (the image keeps its aspect by resizing its box)
L47 ==
    /\ Goto("l47", "l48")
    /\ subplotpars' = [ margins |-> "tight", wspace |-> "tight", hspace |-> "tight" ]
    /\ UNCHANGED << figOpen, figAxes, ax, current, xshared, yshared, nextId >>
    /\ UNCHANGED << callerVars, localVars, envVars, err, ret >>

\* pl.subplots_adjust(wspace=0., hspace=0.2), and the function's end:
\* it returns None
L48 ==
    /\ Goto("l48", "done")
    /\ subplotpars' = [ subplotpars EXCEPT !.wspace = "0.0", !.hspace = "0.2" ]
    /\ ret' = "None"
    /\ UNCHANGED << figOpen, figAxes, ax, current, xshared, yshared, nextId >>
    /\ UNCHANGED << callerVars, localVars, envVars, err >>

\* one statement of the call in progress
Step ==
    \/ L24 \/ L26 \/ L28 \/ L29 \/ L31 \/ L32 \/ L33 \/ L34 \/ L36 \/ L37
    \/ L38 \/ L39 \/ L40 \/ L42 \/ L43 \/ L44 \/ L46 \/ L47 \/ L48

Next == Call \/ Step

Spec == Init /\ [][Next]_vars

(* ------------------------- what the claims name ---------------------- *)
\* the lines of plot1D_mat, in order
AllLines == << "l24", "l26", "l28", "l29", "l31", "l32", "l33", "l34", "l36",
               "l37", "l38", "l39", "l40", "l42", "l43", "l44", "l46", "l47",
               "l48" >>

\* the lines up to and including the n-th
LinesTo(n) == SubSeq(AllLines, 1, n)

InCall == pc # "idle"
Valid  == /\ Len(a) = Len(M)
          /\ Len(b) = Len(M[1])

\* the regions of the current figure
Regions == SeqRange(figAxes)

\* the regions the call in progress has added to the current figure
Added == Regions \ SeqRange(preAxes)

\* the regions of this call's grid that hold an image
Heatmaps == { i \in Regions : ax[i].gs = gs /\ ax[i].image # NoImage }
Heat     == CHOOSE i \in Heatmaps : TRUE

\* the autoscaled, inverted view interval of data vs
InvertedAuto(vs) ==
    LET iv == WithMargins(Nonsingular(Fx(MinOf(vs)), Fx(MaxOf(vs))))
    IN  << iv[2], iv[1] >>

(* C1: a call whose a and b have the lengths of M's rows and columns never *)
(* raises; until it is done it stands at the line after the ones it has    *)
(* run, that line can run, and a pl.plot it stands at has arguments of     *)
(* equal length; it ends having run every line once, in order, and returns *)
(* None.                                                                   *)
C1_ValidCallCompletes ==
    (InCall /\ Valid) =>
        /\ pc # "raised"
        /\ err = "none"
        /\ trace = LinesTo(Len(trace))
        /\ pc # "done" =>
              /\ Len(trace) < Len(AllLines)
              /\ pc = AllLines[Len(trace) + 1]
              /\ pc = "l32" => PlotArgsOK(xb, b)
              /\ pc = "l37" => PlotArgsOK(a, xa)
              /\ pc \in {"l32", "l37"} \/ ENABLED Step
        /\ pc = "done" => (trace = AllLines /\ ret = "None")

C1_Witness ==
    /\ pc = "done" /\ Valid /\ err = "none" /\ ret = "None"
    /\ Len(a) = 2 /\ Len(b) = 1

(* C2, as claimed: after a completed call the current figure contains      *)
(* exactly three regions, the top marginal, the left marginal and the      *)
(* heatmap.                                                                *)
C2_ExactlyThreeRegions ==
    pc = "done" =>
        /\ Cardinality(Heatmaps) = 1
        /\ Regions = {ax1, ax2, Heat}
        /\ Len(figAxes) = 3

(* C2, amended: a completed call has added exactly three regions to the    *)
(* current figure, the top marginal with the target curve, the left        *)
(* marginal with the source curve and the heatmap with the image; the      *)
(* figure contains exactly these three when it held no region before the   *)
(* call.                                                                   *)
C2_AddsThreeRegions ==
    pc = "done" =>
        /\ Cardinality(Heatmaps) = 1
        /\ Cardinality(Added) = 3
        /\ Added = {ax1, ax2, Heat}
        /\ Len(ax[ax1].lines) = 1 /\ ax[ax1].image = NoImage
        /\ Len(ax[ax2].lines) = 1 /\ ax[ax2].image = NoImage
        /\ ax[Heat].lines = << >>
        /\ Regions \ Added \subseteq SeqRange(preAxes)
        /\ preAxes = << >> => Len(figAxes) = 3

C2_Witness ==
    /\ pc = "done" /\ preAxes = << >>
    /\ Len(figAxes) = 3 /\ Regions = {ax1, ax2, Heat}

(* C3: once line 46 has run, and through the layout and spacing steps to   *)
(* the end of the call, the heatmap's x limits are exactly (0, nb).        *)
C3_HeatmapXLim ==
    pc \in {"l47", "l48", "done"} =>
        /\ Heatmaps # {}
        /\ ax[Heat].xlim = << 0, 200 * Len(M[1]) >>

C3_Witness ==
    /\ pc = "done" /\ Len(M[1]) = 2 /\ Heatmaps # {}
    /\ ax[Heat].xlim = << 0, 400 >>

(* C4: after a completed call both axes of the left marginal run           *)
(* downwards.                                                              *)
C4_LeftInverted ==
    pc = "done" =>
        /\ ax[ax2].xlim[1] > ax[ax2].xlim[2]
        /\ ax[ax2].ylim[1] > ax[ax2].ylim[2]

C4_Witness ==
    /\ pc = "done" /\ a[1] < 0 /\ Heatmaps # {}
    /\ ax[ax2].xlim[1] > ax[ax2].xlim[2]
    /\ ax[ax2].ylim = ax[Heat].ylim
    /\ ax[ax2].ylim[1] > ax[ax2].ylim[2]

(* C5: after a completed call the heatmap shares its x axis with the top   *)
(* marginal only and its y axis with the left marginal only; the two       *)
(* marginals share no axis with each other.                                *)
C5_Sharing ==
    pc = "done" =>
        /\ Heatmaps # {}
        /\ Cardinality({ax1, ax2, Heat}) = 3
        /\ Siblings(xshared, Heat) = {ax1, Heat}
        /\ Siblings(yshared, Heat) = {ax2, Heat}
        /\ ax2 \notin Siblings(xshared, ax1)
        /\ ax2 \notin Siblings(yshared, ax1)

C5_Witness ==
    /\ pc = "done" /\ Heatmaps # {}
    /\ Heat \in Siblings(xshared, ax1)
    /\ Heat \in Siblings(yshared, ax2)

(* C6: a call with len(b) # nb or len(a) # na is stopped by nothing but    *)
(* the ValueError of the first mismatched pl.plot (line 32 when b is       *)
(* wrong, else line 37): every line before it has run, the error is what   *)
(* reaches the caller, nothing is returned, no line runs after it and no   *)
(* image is drawn.                                                         *)
C6_MismatchRaises ==
    (InCall /\ ~Valid) =>
        /\ pc # "done"
        /\ ret = "unset"
        /\ pc # "raised" =>
              /\ err = "none"
              /\ trace = LinesTo(Len(trace))
              /\ pc = AllLines[Len(trace) + 1]
              /\ pc = "l32" => (PlotArgsOK(xb, b) <=> Len(b) = Len(M[1]))
              /\ pc = "l37" => ~ PlotArgsOK(a, xa)
              /\ pc \in {"l32", "l37"} \/ ENABLED Step
        /\ pc = "raised" =>
              /\ err = "ValueError"
              /\ ~ ENABLED Step
              /\ Heatmaps = {}
              /\ trace = IF Len(b) # Len(M[1]) THEN LinesTo(6) ELSE LinesTo(10)

C6_Witness ==
    /\ pc = "raised" /\ err = "ValueError"
    /\ Len(a) # Len(M) /\ Len(b) = Len(M[1])
    /\ trace = LinesTo(10)

(* C7: during and after a call, completed or failed, a, b, M and title are *)
(* what they were when the call was made.                                  *)
C7_InputsUnchanged ==
    InCall => << a, b, M, title >> = args0

C7_Witness ==
    /\ pc = "done" /\ figAxes # preAxes
    /\ << a, b, M, title >> = args0
    /\ Len(M) = 2 /\ Len(M[1]) = 2

(* C8: on the 3x3 grid the top marginal occupies row 0, columns 1-2, the   *)
(* left marginal rows 1-2, column 0, the heatmap rows 1-2, columns 1-2;    *)
(* the three are pairwise disjoint and none covers cell (0, 0).            *)
C8_GridCells ==
    pc = "done" =>
        /\ Heatmaps # {}
        /\ gs.rows = 3 /\ gs.cols = 3
        /\ ax[ax1].cells = { << 0, 1 >>, << 0, 2 >> }
        /\ ax[ax2].cells = { << 1, 0 >>, << 2, 0 >> }
        /\ ax[Heat].cells = { << 1, 1 >>, << 1, 2 >>, << 2, 1 >>, << 2, 2 >> }
        /\ ax[ax1].cells \cap ax[ax2].cells = {}
        /\ ax[ax1].cells \cap ax[Heat].cells = {}
        /\ ax[ax2].cells \cap ax[Heat].cells = {}
        /\ << 0, 0 >> \notin ax[ax1].cells \cup ax[ax2].cells \cup ax[Heat].cells
        /\ { c[2] : c \in ax[ax1].cells } = { c[2] : c \in ax[Heat].cells }
        /\ { c[1] : c \in ax[ax2].cells } = { c[1] : c \in ax[Heat].cells }

C8_Witness ==
    /\ pc = "done" /\ Heatmaps # {}
    /\ Cardinality(ax[ax1].cells) = 2
    /\ Cardinality(ax[ax2].cells) = 2
    /\ Cardinality(ax[Heat].cells) = 4

(* C9: a failed call leaves what it drew.  Failing on a (b fits) it leaves *)
(* the new top region with the target curve and the title and the new left *)
(* region with nothing drawn, and no heatmap region; failing on b it       *)
(* leaves the new top region; the figure is not what it was before the     *)
(* call.                                                                   *)
C9_FailureNotAtomic ==
    pc = "raised" =>
        /\ figAxes # preAxes
        /\ \A i \in Regions : ax[i].gs = gs => ax[i].cells # CenterSpec
        /\ Heatmaps = {}
        /\ IF Len(b) = Len(M[1])
           THEN /\ Added = {ax1, ax2} /\ ax1 # ax2
                /\ Len(ax[ax1].lines) = 1
                /\ ax[ax1].lines[1].y = b
                /\ ax[ax1].title = title
                /\ ax[ax2].lines = << >>
           ELSE /\ Added = {ax1} /\ ax2 = 0

C9_Witness ==
    /\ pc = "raised" /\ Len(b) = Len(M[1])
    /\ Added = {ax1, ax2} /\ ax[ax1].title = "demo"
    /\ ax[ax2].lines = << >>

(* C10: from its creation on line 42 to the end of the call the heatmap    *)
(* region is the newest and the current region; the axis-hiding of line 44 *)
(* reaches it and neither marginal; the x limits of line 46 reach it and,  *)
(* through the shared x axis, the top marginal, both (0, nb) at the end,   *)
(* while the left marginal keeps the inverted autoscaled interval of a.    *)
C10_HeatmapIsCurrent ==
    /\ pc \in {"l43", "l44", "l46", "l47", "l48", "done"} =>
          /\ current \notin {ax1, ax2}
          /\ current = figAxes[Len(figAxes)]
          /\ ax[current].gs = gs /\ ax[current].cells = CenterSpec
    /\ pc = "done" =>
          /\ Heatmaps = {current}
          /\ ~ ax[current].axison /\ ax[ax1].axison /\ ax[ax2].axison
          /\ ax[current].xlim = << 0, 200 * nb >>
          /\ ax[ax1].xlim = << 0, 200 * nb >>
          /\ ~ ax[ax1].autox
          /\ ax[ax2].autox
          /\ ax[ax2].xlim = InvertedAuto(SeqRange(a))

C10_Witness ==
    /\ pc = "done" /\ nb = 2 /\ Heatmaps = {current}
    /\ ax[ax1].xlim = << 0, 400 >>
    /\ ax[ax2].xlim # << 0, 400 >>

====
